---- MODULE Spec2Model ----
(***************************************************************************)
(* Binary acquisition and cache engine of the supervise-dev buildpacks:    *)
(* the tar+gzip extractor shared by the pkgx and caddy installers, the     *)
(* caddy installer's cache-key derivation, the caddy installer's build     *)
(* (cache decision, Hit path, Miss path), the pkgx installer's build and   *)
(* the ttyd installer's build.                                             *)
(*                                                                         *)
(* Strings are sequences of one-character strings, so that cleaning,       *)
(* joining, prefix tests and byte-wise sorting are computed as the Go      *)
(* library computes them.                                                  *)
(***************************************************************************)
EXTENDS Integers, Sequences, FiniteSets, TLC

VARIABLES
    \* ---- cache-key derivation (caddy build, lines 298-302) ----
    declaredSrc,    \* the plugin list as the source text declares it
    caddyPlugins,   \* the package-level slice caddyPlugins as it is in memory
    buildHash,      \* the key derived by the latest derivation, or NoHash
    prevDeclared,   \* the declaration before the latest edit
    prevHash,       \* the key that was derived for prevDeclared
    prevHashed,     \* the string that was hashed for prevDeclared
    keyOp,          \* the latest edit of the declaration
    \* ---- extractTarGz ----
    dest,           \* the destination directory handed to extractTarGz
    fs,             \* the filesystem: physical path -> node
    xres,           \* "run" while the loop runs, then the result of the call
    xcount,         \* number of headers read from the stream so far
    xlast,          \* the entry read last
    xprev,          \* the filesystem before the entry read last
    touched,        \* the physical paths extraction created or wrote
    \* ---- the caddy installer's build ----
    bpVersion,      \* context.BuildpackInfo.Version of the running buildpack
    template,       \* content of <CNBPath>/config/Caddyfile
    meta,           \* the layer metadata stored with the layer (caddy.toml)
    layer,          \* the content of the layer directory
    pc,             \* the statement build is at
    lmeta,          \* layer.Metadata of the layer value build holds
    cver,           \* caddyVersion, the output of the version query
    result,         \* what the latest invocation returned
    taken,          \* the path (hit or miss) the latest invocation took
    trace,          \* the stages the latest invocation ran, in order
    hitLayer,       \* the layer directory when the Hit path was entered
    startMeta,      \* the stored metadata when the invocation started
    prevTaken,      \* the path of the invocation before, if it succeeded and
                    \* nothing was changed since; "none" otherwise
    \* ---- the pkgx installer's build ----
    pkgxVersion,    \* context.BuildpackInfo.Version of the pkgx buildpack
    osName,         \* trimmed output of uname
    arch,           \* trimmed output of uname -m
    pdata,          \* data, the archive fetchArchive returned
    ppc,            \* the statement the pkgx build is at
    pmeta,          \* the metadata stored with the pkgx layer
    presult,        \* what the latest invocation of the pkgx build returned
    \* ---- the ttyd installer's build ----
    goos,           \* runtime.GOOS
    goarch,         \* runtime.GOARCH
    ttydVersionEnv, \* the environment variable TTYD_VERSION
    ttydBpVersion,  \* context.BuildpackInfo.Version of the ttyd buildpack
    assetName,      \* assetName, once the platform is looked up
    tversion,       \* version, once it is resolved
    archiveURL,     \* archiveURL, once it is formatted
    tdata,          \* data, the body fetchBinary returned
    tpc,            \* the statement the ttyd build is at
    tmeta,          \* the metadata stored with the ttyd layer
    tresult,        \* what the invocation of the ttyd build returned
    fetched,        \* the URLs http.Get was called with
    resets,         \* number of calls of layer.Reset
    tstartFs,       \* the filesystem when the invocation started
    tstartMeta      \* the stored metadata when the invocation started

keyVars == <<declaredSrc, caddyPlugins, buildHash, prevDeclared, prevHash, prevHashed, keyOp>>

xVars == <<dest, fs, xres, xcount, xlast, xprev, touched>>

cVars == <<bpVersion, template, meta, layer, pc, lmeta, cver, result, taken, trace,
           hitLayer, startMeta, prevTaken>>

pVars == <<pkgxVersion, osName, arch, pdata, ppc, pmeta, presult>>

tVars == <<goos, goarch, ttydVersionEnv, ttydBpVersion, assetName, tversion, archiveURL,
           tdata, tpc, tmeta, tresult, fetched, resets, tstartFs, tstartMeta>>

vars == <<keyVars, xVars, cVars, pVars, tVars>>

(***************************************************************************)
(* Strings                                                                 *)
(***************************************************************************)

\* Byte value of the characters the model uses (Go compares strings byte-wise).
CharCode(c) ==
    CASE c = "," -> 44
      [] c = "." -> 46
      [] c = "/" -> 47
      [] c = ":" -> 58
      [] c = "a" -> 97
      [] c = "b" -> 98
      [] c = "c" -> 99
      [] c = "l" -> 108
      [] OTHER   -> 120

\* s < t in Go's string order.
StrLess(s, t) ==
    \E i \in 1..Len(t) :
        /\ Len(s) >= i - 1
        /\ \A j \in 1..(i - 1) : s[j] = t[j]
        /\ (Len(s) = i - 1 \/ CharCode(s[i]) < CharCode(t[i]))

\* strings.HasPrefix
HasPrefix(s, p) ==
    /\ Len(p) <= Len(s)
    /\ SubSeq(s, 1, Len(p)) = p

RECURSIVE StringsJoin(_, _)
\* strings.Join(elems, sep)
StringsJoin(elems, sep) ==
    IF Len(elems) = 0 THEN <<>>
    ELSE IF Len(elems) = 1 THEN elems[1]
    ELSE elems[1] \o sep \o StringsJoin(Tail(elems), sep)

RECURSIVE InsertSorted(_, _)
InsertSorted(x, sorted) ==
    IF Len(sorted) = 0 THEN <<x>>
    ELSE IF StrLess(sorted[1], x) THEN <<sorted[1]>> \o InsertSorted(x, Tail(sorted))
    ELSE <<x>> \o sorted

RECURSIVE SortStringsOf(_)
SortStringsOf(list) ==
    IF Len(list) = 0 THEN <<>>
    ELSE InsertSorted(list[1], SortStringsOf(Tail(list)))

\* A sort that was forgotten: the list in declaration order.
SortStringsSkipped(list) == list

\* sort.Strings(plugins): the list in increasing byte-wise order.
SortStrings(list) == SortStringsOf(list)

(***************************************************************************)
(* Paths: path/filepath on a Unix build                                    *)
(***************************************************************************)

Sep == <<"/">>
Dot == <<".">>
DotDot == <<".", ".">>

RECURSIVE SplitPath(_)
\* The pieces of s between its separators (empty pieces included).
SplitPath(s) ==
    IF Len(s) = 0 THEN << <<>> >>
    ELSE LET r == SplitPath(Tail(s))
         IN  IF Head(s) = "/" THEN << <<>> >> \o r
             ELSE << <<Head(s)>> \o r[1] >> \o Tail(r)

RECURSIVE CleanComps(_, _, _)
\* The lexical processing of filepath.Clean: drop empty and "." elements,
\* let ".." remove the element before it, drop ".." at the root.
CleanComps(comps, rooted, out) ==
    IF Len(comps) = 0 THEN out
    ELSE LET c == Head(comps)
             rest == Tail(comps)
         IN  IF c = <<>> \/ c = Dot THEN CleanComps(rest, rooted, out)
             ELSE IF c = DotDot THEN
                 IF Len(out) > 0 /\ out[Len(out)] # DotDot
                 THEN CleanComps(rest, rooted, SubSeq(out, 1, Len(out) - 1))
                 ELSE IF rooted THEN CleanComps(rest, rooted, out)
                 ELSE CleanComps(rest, rooted, Append(out, c))
             ELSE CleanComps(rest, rooted, Append(out, c))

\* filepath.Clean
Clean(path) ==
    IF Len(path) = 0 THEN Dot
    ELSE LET rooted == path[1] = "/"
             body == StringsJoin(CleanComps(SplitPath(path), rooted, <<>>), Sep)
         IN  IF rooted THEN Sep \o body
             ELSE IF Len(body) = 0 THEN Dot ELSE body

\* filepath.Join(a, b): the non-empty elements joined by the separator, cleaned.
JoinPath(a, b) ==
    IF Len(a) = 0 /\ Len(b) = 0 THEN <<>>
    ELSE IF Len(a) = 0 THEN Clean(b)
    ELSE IF Len(b) = 0 THEN Clean(a)
    ELSE Clean(a \o Sep \o b)

\* filepath.Dir of a cleaned absolute path.
DirOf(path) ==
    LET comps == CleanComps(SplitPath(path), TRUE, <<>>)
    IN  IF Len(comps) = 0 THEN Sep
        ELSE Sep \o StringsJoin(SubSeq(comps, 1, Len(comps) - 1), Sep)

\* The elements of an absolute path.
CompsOf(path) == CleanComps(SplitPath(path), TRUE, <<>>)

\* A prefix test on the raw strings, without the separator.
EnsureWithinDirRawPrefix(root, target) ==
    HasPrefix(Clean(target), Clean(root))

\* ensureWithinDir(root, target) returns nil
EnsureWithinDir(root, target) ==
    LET r == Clean(root)
        t == Clean(target)
    IN  HasPrefix(t, r \o Sep) \/ t = r

(***************************************************************************)
(* The filesystem the extractor writes to                                  *)
(***************************************************************************)

\* Permission bits: 0o755, 0o644, 0o777, and the process's file mode
\* creation mask, 0o022.
Mode755 == 493
Mode644 == 420
Mode777 == 511
Umask == 18

RECURSIVE AndNot(_, _)
\* m &^ u: the kernel clears the mask's bits in the mode of a new file.
AndNot(m, u) ==
    IF m = 0 THEN 0
    ELSE 2 * AndNot(m \div 2, u \div 2) + (IF u % 2 = 1 THEN 0 ELSE m % 2)

NoData == [content |-> 0, full |-> TRUE]

\* A node of the filesystem. data: which content a regular file holds, and
\* whether all of it was written.
DirNode == [kind |-> "dir", to |-> <<>>, mode |-> Mode755, data |-> NoData]
FileNode(mode, data) == [kind |-> "file", to |-> <<>>, mode |-> mode, data |-> data]
LinkNode(linkname) == [kind |-> "link", to |-> linkname, mode |-> Mode777, data |-> NoData]

\* Symbolic links the kernel follows in one path resolution before ELOOP.
MaxSymlinkHops == 4

ParentOf(p) == IF Len(p) = 0 THEN p ELSE SubSeq(p, 1, Len(p) - 1)

\* The node at p is the directory root or lies under it.
IsBelow(root, p) == Len(p) >= Len(root) /\ SubSeq(p, 1, Len(root)) = root

RECURSIVE Walk(_, _, _, _, _)
\* The kernel's path walk from directory cur over the elements rest. The
\* result is "ok" at an existing node, "missing" when only the last element
\* does not exist (at: where it would be created), or "err".
Walk(f, cur, rest, followLast, hops) ==
    IF Len(rest) = 0 THEN [st |-> "ok", at |-> cur]
    ELSE IF f[cur].kind # "dir" THEN [st |-> "err", at |-> cur]
    ELSE LET c == Head(rest)
             more == Tail(rest)
             p == Append(cur, c)
         IN  IF c = <<>> \/ c = Dot THEN Walk(f, cur, more, followLast, hops)
             ELSE IF c = DotDot THEN Walk(f, ParentOf(cur), more, followLast, hops)
             ELSE IF p \notin DOMAIN f THEN
                 IF Len(more) = 0 THEN [st |-> "missing", at |-> p]
                 ELSE [st |-> "err", at |-> p]
             ELSE IF f[p].kind = "link" /\ (Len(more) > 0 \/ followLast) THEN
                 IF hops = 0 THEN [st |-> "err", at |-> p]
                 ELSE IF f[p].to[1] = "/"
                 THEN Walk(f, <<>>, SplitPath(f[p].to) \o more, followLast, hops - 1)
                 ELSE Walk(f, cur, SplitPath(f[p].to) \o more, followLast, hops - 1)
             ELSE Walk(f, p, more, followLast, hops)

\* os.Stat follows a final symbolic link, os.Lstat does not.
Stat(f, path) == Walk(f, <<>>, SplitPath(path), TRUE, MaxSymlinkHops)
Lstat(f, path) == Walk(f, <<>>, SplitPath(path), FALSE, MaxSymlinkHops)

IsDirAt(f, r) == r.st = "ok" /\ f[r.at].kind = "dir"

WithNode(f, p, node) == [q \in DOMAIN f \cup {p} |-> IF q = p THEN node ELSE f[q]]

\* Result of a filesystem operation: the filesystem after it, whether it
\* failed, and the physical paths it created or wrote.
FsResult(f, failed, wrote) == [fs |-> f, failed |-> failed, wrote |-> wrote]

\* os.Mkdir
Mkdir(f, path) ==
    LET r == Lstat(f, path)
    IN  IF r.st = "missing"
        THEN FsResult(WithNode(f, r.at, DirNode), FALSE, {r.at})
        ELSE FsResult(f, TRUE, {})

RECURSIVE MkdirAll(_, _)
\* os.MkdirAll: nothing to do for an existing directory, an error for an
\* existing non-directory; otherwise the parent first, then os.Mkdir.
MkdirAll(f, path) ==
    LET s == Stat(f, path)
    IN  IF s.st = "ok"
        THEN FsResult(f, ~IsDirAt(f, s), {})
        ELSE IF Len(CompsOf(path)) = 0 THEN FsResult(f, TRUE, {})
        ELSE LET up == MkdirAll(f, DirOf(path))
             IN  IF up.failed THEN up
                 ELSE LET m == Mkdir(up.fs, path)
                      IN  IF ~m.failed
                          THEN FsResult(m.fs, FALSE, up.wrote \cup m.wrote)
                          ELSE FsResult(up.fs, ~IsDirAt(up.fs, Lstat(up.fs, path)), up.wrote)

\* os.Symlink(linkname, path); failed = an error other than os.ErrExist.
Symlink(f, linkname, path) ==
    LET r == Lstat(f, path)
    IN  IF r.st = "missing"
        THEN FsResult(WithNode(f, r.at, LinkNode(linkname)), FALSE, {r.at})
        ELSE FsResult(f, r.st = "err", {})

\* os.OpenFile(path, O_CREATE|O_WRONLY|O_TRUNC, mode), io.Copy and Close:
\* the open follows symbolic links, the final one included, and creates or
\* truncates the file; the copy fails when the content stream is broken.
\* A new file gets the mode less the mask; an existing file keeps its mode.
WriteFile(f, path, mode, content, broken) ==
    LET r == Stat(f, path)
        data == [content |-> content, full |-> ~broken]
    IN  IF r.st = "missing"
        THEN FsResult(WithNode(f, r.at, FileNode(AndNot(mode, Umask), data)),
                      broken, {r.at})
        ELSE IF r.st = "ok" /\ f[r.at].kind = "file"
        THEN FsResult(WithNode(f, r.at, FileNode(f[r.at].mode, data)),
                      broken, {r.at})
        ELSE FsResult(f, TRUE, {})

\* os.RemoveAll(path) followed by os.MkdirAll(path, os.ModePerm), as
\* packit's Layer.Reset does for the layer directory.
RemoveAllAndMkdir(f, path) ==
    LET root == CompsOf(path)
        kept == { p \in DOMAIN f : ~IsBelow(root, p) }
    IN  [p \in kept \cup {root} |-> IF p = root THEN DirNode ELSE f[p]]

\* The path walk failed with ENOENT (errors.Is(err, os.ErrNotExist)).
IsNotExist(f, r) == r.st = "missing" \/ (r.st = "err" /\ r.at \notin DOMAIN f)

\* os.Chmod(path, mode): follows symbolic links and sets the mode as given.
\* failed: any error; notExist: the error is os.ErrNotExist.
Chmod(f, path, mode) ==
    LET r == Stat(f, path)
    IN  IF r.st = "ok"
        THEN [fs |-> WithNode(f, r.at, [f[r.at] EXCEPT !.mode = mode]),
              failed |-> FALSE, notExist |-> FALSE]
        ELSE [fs |-> f, failed |-> TRUE, notExist |-> IsNotExist(f, r)]

(***************************************************************************)
(* extractTarGz: pkgx/run/main.go 120-173, and the caddy installer's copy  *)
(***************************************************************************)

\* Largest number of entries in an archive.
MaxEntries == 2

A == <<"a">>
B == <<"b">>
BC == <<"b", "c">>
L == <<"l">>
X == <<"x">>

\* Destination directories: /a/b, as filepath.Join yields it, and with a
\* trailing separator.
Dests == { <<"/", "a", "/", "b">>, <<"/", "a", "/", "b", "/">> }

\* The filesystem before extraction: the destination exists (the caller
\* created it with os.MkdirAll), and so do its ancestors.
InitialFs == [p \in { <<>>, <<A>>, <<A, B>> } |-> DirNode]

\* Entry paths (header.Name) of the archives.
EntryNames ==
    { StringsJoin(cs, Sep) : cs \in
        { <<Dot>>, <<L>>, <<BC>>, <<L, X>>, <<BC, L>>, <<DotDot>>,
          <<DotDot, BC>>, <<DotDot, BC, X>>, <<L, DotDot, DotDot, X>> } }

\* Link targets (header.Linkname) of the symbolic-link entries: the parent
\* directory, an absolute path outside the destination, a sibling entry.
LinkNames == { DotDot, <<"/", "a">>, BC }

\* header.Typeflag values: directory, symbolic link, regular file (both
\* tags), and a hard link standing for every other tag.
TypeFlags == { "TypeDir", "TypeSymlink", "TypeReg", "TypeRegA", "TypeLink" }

\* A header. mode: header.Mode; broken: the content stream of a regular file
\* ends in an error; content: which content stream follows the header, 0
\* until the stream position is known.
Header(n, t, l, m, b) ==
    [name |-> n, typ |-> t, linkname |-> l, mode |-> m, broken |-> b, content |-> 0]

\* The headers tarReader.Next can return.
Entries ==
    { Header(n, t, <<>>, Mode755, FALSE) :
        n \in EntryNames, t \in TypeFlags \ {"TypeSymlink", "TypeReg", "TypeRegA"} }
    \cup
    { Header(n, t, <<>>, m, b) :
        n \in EntryNames, t \in TypeFlags \cap {"TypeReg", "TypeRegA"},
        m \in {Mode644, Mode755}, b \in BOOLEAN }
    \cup
    { Header(n, "TypeSymlink", l, Mode777, FALSE) :
        n \in EntryNames, l \in LinkNames }

NoEntry == Header(<<>>, "none", <<>>, 0, FALSE)

\* The i-th header of the stream is followed by the i-th content.
AtPosition(e, i) == [e EXCEPT !.content = i]

\* Outcome of one loop iteration: the filesystem after it, the paths it
\* created or wrote, and "run" to go on or the error the call returns.
StepResult(r, res) == [fs |-> r.fs, wrote |-> r.wrote, res |-> res]

\* A switch whose default case goes on to the next entry.
ApplyEntrySkipsUnknown(f, target, e) ==
    IF e.typ = "TypeDir" THEN
        LET r == MkdirAll(f, target)
        IN  StepResult(r, IF r.failed THEN "fserror" ELSE "run")
    ELSE IF e.typ = "TypeSymlink" THEN
        LET r == Symlink(f, e.linkname, target)
        IN  StepResult(r, IF r.failed THEN "fserror" ELSE "run")
    ELSE IF e.typ \in {"TypeReg", "TypeRegA"} THEN
        LET up == MkdirAll(f, DirOf(target))
        IN  IF up.failed THEN StepResult(up, "fserror")
            ELSE LET w == WriteFile(up.fs, target, e.mode, e.content, e.broken)
                 IN  [fs |-> w.fs, wrote |-> up.wrote \cup w.wrote,
                      res |-> IF w.failed THEN "fserror" ELSE "run"]
    ELSE StepResult(FsResult(f, FALSE, {}), "run")

\* The switch on header.Typeflag, lines 142-171.
ApplyEntry(f, target, e) ==
    IF e.typ = "TypeDir" THEN
        LET r == MkdirAll(f, target)
        IN  StepResult(r, IF r.failed THEN "fserror" ELSE "run")
    ELSE IF e.typ = "TypeSymlink" THEN
        LET r == Symlink(f, e.linkname, target)
        IN  StepResult(r, IF r.failed THEN "fserror" ELSE "run")
    ELSE IF e.typ \in {"TypeReg", "TypeRegA"} THEN
        LET up == MkdirAll(f, DirOf(target))
        IN  IF up.failed THEN StepResult(up, "fserror")
            ELSE LET w == WriteFile(up.fs, target, e.mode, e.content, e.broken)
                 IN  [fs |-> w.fs, wrote |-> up.wrote \cup w.wrote,
                      res |-> IF w.failed THEN "fserror" ELSE "run"]
    ELSE StepResult(FsResult(f, FALSE, {}), "unsupported")

\* An extractor that undoes what it wrote when an entry fails.
ExtractEntryRollsBack(f, d, e) ==
    LET target == JoinPath(d, e.name)
    IN  IF ~EnsureWithinDir(d, target)
        THEN StepResult(FsResult(InitialFs, FALSE, {}), "escape")
        ELSE LET r == ApplyEntry(f, target, e)
             IN  IF r.res = "run" THEN r
                 ELSE StepResult(FsResult(InitialFs, FALSE, {}), r.res)

\* One iteration of the loop for header e, lines 137-171.
ExtractEntry(f, d, e) ==
    LET target == JoinPath(d, e.name)
    IN  IF ~EnsureWithinDir(d, target)
        THEN StepResult(FsResult(f, FALSE, {}), "escape")
        ELSE ApplyEntry(f, target, e)

XInit ==
    /\ dest \in Dests
    /\ fs = InitialFs
    /\ xres = "run"
    /\ xcount = 0
    /\ xlast = NoEntry
    /\ xprev = InitialFs
    /\ touched = {}

\* gzip.NewReader fails, lines 121-124.
XGzipError ==
    /\ xres = "run"
    /\ xcount = 0
    /\ xres' = "gzip"
    /\ UNCHANGED <<dest, fs, xcount, xlast, xprev, touched>>

\* tarReader.Next returns an error other than io.EOF, lines 133-135.
XHeaderError ==
    /\ xres = "run"
    /\ xres' = "header"
    /\ UNCHANGED <<dest, fs, xcount, xlast, xprev, touched>>

\* tarReader.Next returns io.EOF, lines 130-132.
XEndOfStream ==
    /\ xres = "run"
    /\ xres' = "ok"
    /\ UNCHANGED <<dest, fs, xcount, xlast, xprev, touched>>

\* tarReader.Next returns a header, and the loop body runs for it.
XEntry ==
    /\ xres = "run"
    /\ xcount < MaxEntries
    /\ \E h \in Entries :
        LET e == AtPosition(h, xcount + 1)
            r == ExtractEntry(fs, dest, e)
        IN  /\ fs' = r.fs
            /\ xres' = r.res
            /\ touched' = touched \cup r.wrote
            /\ xlast' = e
    /\ xprev' = fs
    /\ xcount' = xcount + 1
    /\ UNCHANGED dest

(***************************************************************************)
(* Cache-key derivation: caddy build, lines 298-302                        *)
(***************************************************************************)

\* const xcaddyVersion = "v0.4.5"
xcaddyVersion == <<"v", "0", ".", "4", ".", "5">>

\* sha256.Sum256 followed by hex.EncodeToString. The digest is idealised as
\* collision free: equal keys if and only if equal hashed strings.
Sha256Hex(s) == [sha256 |-> s]

NoHash == [sha256 |-> <<"n", "o", "n", "e">>, none |-> TRUE]

\* plugins := caddyPlugins; sort.Strings(plugins): sorts the declared slice
\* itself, through the shared backing array.
SortedPluginsInPlace(declared) ==
    [plugins |-> SortStrings(declared), declared |-> SortStrings(declared)]

\* plugins := append([]string(nil), caddyPlugins...); sort.Strings(plugins):
\* the sorted copy, and the declared slice after the statement.
SortedPlugins(declared) ==
    [plugins |-> SortStrings(declared), declared |-> declared]

\* The string handed to sha256.Sum256.
HashedString(version, plugins) ==
    version \o <<":">> \o StringsJoin(plugins, <<",">>)

\* buildHash of line 302 for a tool version and a declared plugin list.
DeriveKey(version, declared) ==
    Sha256Hex(HashedString(version, SortedPlugins(declared).plugins))

\* Largest number of plugins in a declaration.
MaxPlugins == 2

\* Plugin identifiers the declarations are drawn from: plain ones, and ones
\* that contain the separator characters of the hashed string.
KeyIds ==
    { <<"a">>, <<"b">>, <<"a", ":">>,
      <<",", "a">>, <<",", "a", ",">>, <<"a", ",">> }

KeyLists == UNION { [1..n -> KeyIds] : n \in 1..MaxPlugins }

IndexPermutations(n) == { f \in [1..n -> 1..n] : \A i, j \in 1..n : f[i] = f[j] => i = j }

KeyInit ==
    /\ declaredSrc \in KeyLists
    /\ caddyPlugins = declaredSrc
    /\ buildHash = NoHash
    /\ prevDeclared = <<>>
    /\ prevHash = NoHash
    /\ prevHashed = <<>>
    /\ keyOp = "declare"

\* build, lines 298-302: derive the key of the current declaration.
KeyDerive ==
    /\ buildHash = NoHash
    /\ buildHash' = DeriveKey(xcaddyVersion, caddyPlugins)
    /\ caddyPlugins' = SortedPlugins(caddyPlugins).declared
    /\ UNCHANGED <<declaredSrc, prevDeclared, prevHash, prevHashed, keyOp>>

\* The declaration is rewritten in another textual order.
KeyReorder ==
    /\ buildHash # NoHash
    /\ \E f \in IndexPermutations(Len(declaredSrc)) :
        /\ declaredSrc' = [i \in 1..Len(declaredSrc) |-> declaredSrc[f[i]]]
        /\ declaredSrc' # declaredSrc
    /\ caddyPlugins' = declaredSrc'
    /\ prevDeclared' = declaredSrc
    /\ prevHash' = buildHash
    /\ prevHashed' = HashedString(xcaddyVersion, SortedPlugins(caddyPlugins).plugins)
    /\ buildHash' = NoHash
    /\ keyOp' = "reorder"

\* One plugin identifier of the declaration is changed.
KeyChangeOne ==
    /\ buildHash # NoHash
    /\ \E i \in 1..Len(declaredSrc), id \in KeyIds :
        /\ id # declaredSrc[i]
        /\ declaredSrc' = [declaredSrc EXCEPT ![i] = id]
    /\ caddyPlugins' = declaredSrc'
    /\ prevDeclared' = declaredSrc
    /\ prevHash' = buildHash
    /\ prevHashed' = HashedString(xcaddyVersion, SortedPlugins(caddyPlugins).plugins)
    /\ buildHash' = NoHash
    /\ keyOp' = "change"

(***************************************************************************)
(* The caddy installer's build: runtime/scripts/agent.sh 297-400           *)
(***************************************************************************)

\* Plugin declarations the installer is built with: two orders of one set,
\* and another set.
PluginDecls == { <<A, B>>, <<B, A>>, <<A>> }

BuildpackVersions == { "B1", "B2" }
Templates == { "T1", "T2" }
\* Version strings which a built caddy binary reports.
CaddyVersions == { "2.7", "2.8" }

NoMeta ==
    [present |-> FALSE, build_hash |-> NoHash, buildpack_version |-> "",
     caddy_version |-> "", plugins |-> <<>>]

\* Metadata whose build_hash is taken over the list in its declared order.
CaddyMetadataUnsortedKey(declared, bp, v) ==
    [present |-> TRUE,
     build_hash |-> Sha256Hex(HashedString(xcaddyVersion, declared)),
     buildpack_version |-> bp,
     caddy_version |-> v,
     plugins |-> StringsJoin(SortedPlugins(declared).plugins, <<",">>)]

\* The map assigned to layer.Metadata, lines 384-391, with buildHash and
\* plugins as lines 298-302 computed them from the declared list.
CaddyMetadata(declared, bp, v) ==
    [present |-> TRUE,
     build_hash |-> DeriveKey(xcaddyVersion, declared),
     buildpack_version |-> bp,
     caddy_version |-> v,
     plugins |-> StringsJoin(SortedPlugins(declared).plugins, <<",">>)]

\* What is at bin/caddy: nothing, a directory, or the binary which xcaddy
\* built, with the inputs of its build (tool version, sorted plugins,
\* buildpack version) and the version the binary reports.
Absent == [kind |-> "absent", tool |-> <<>>, plugins |-> <<>>, bp |-> "", version |-> ""]
DirEntry == [kind |-> "dir", tool |-> <<>>, plugins |-> <<>>, bp |-> "", version |-> ""]
BuiltFile(plugins, bp, v) ==
    [kind |-> "file", tool |-> xcaddyVersion, plugins |-> plugins, bp |-> bp, version |-> v]

\* The layer directory after layer.Reset(): recreated, empty.
EmptyLayer ==
    [bindir |-> FALSE, caddy |-> Absent, xcaddy |-> FALSE, config |-> "absent",
     sbom |-> FALSE]

\* fileExists accepting whatever os.Stat finds, directories included.
FileExistsAnyKind(node) == node.kind # "absent"

\* fileExists(path), lines 565-572: os.Stat succeeds and it is no directory.
FileExists(node) == node.kind = "file"

\* The condition of lines 312-314 with the binary check left out.
CacheHitMetadataOnly(m, l, plugins, bp) ==
    /\ m.present
    /\ m.buildpack_version = bp
    /\ m.build_hash = DeriveKey(xcaddyVersion, plugins)

\* The condition of lines 312-314: build_hash, buildpack_version and
\* caddy_version are stored as strings, the stored version and hash equal
\* the current ones, and the binary exists.
CacheHit(m, l, plugins, bp) ==
    /\ m.present
    /\ m.buildpack_version = bp
    /\ m.build_hash = DeriveKey(xcaddyVersion, plugins)
    /\ FileExists(l.caddy)

\* A Hit path which leaves the configuration in the layer as it is.
CopyDefaultConfigSkipped(l, t) == l

\* copyDefaultConfig, lines 544-563, when it succeeds.
CopyDefaultConfig(l, t) == [l EXCEPT !.config = t]

\* The order of the statements of the Miss path, lines 335-399.
MissOrder ==
    << "reset", "mkdir", "fetch", "extract", "chmod", "build", "remove",
       "version", "config", "metadata", "sbom" >>

StageIndex(stage) == CHOOSE i \in 1..Len(MissOrder) : MissOrder[i] = stage

\* The statement that follows a stage which succeeded.
StageAfter(stage) ==
    IF stage = "sbom" THEN "done" ELSE MissOrder[StageIndex(stage) + 1]

\* A failure handling which logs the error and goes on.
AfterFailureContinues(stage) == StageAfter(stage)

\* Every failure returns packit.BuildResult{} and the error at once.
AfterFailure(stage) == "done"

CInit ==
    /\ caddyPlugins \in PluginDecls
    /\ bpVersion \in BuildpackVersions
    /\ template \in Templates
    /\ meta = NoMeta
    /\ layer = EmptyLayer
    /\ pc = "idle"
    /\ lmeta = NoMeta
    /\ cver = ""
    /\ result = "none"
    /\ taken = "none"
    /\ trace = <<>>
    /\ hitLayer = EmptyLayer
    /\ startMeta = NoMeta
    /\ prevTaken = "none"

AtRest == pc \in {"idle", "done"}

\* ---- changes made outside build, between invocations ----

\* What the last invocation held in memory is gone with its process.
ForgetInvocation ==
    /\ pc' = "idle"
    /\ lmeta' = NoMeta
    /\ cver' = ""
    /\ result' = "none"
    /\ taken' = "none"
    /\ trace' = <<>>
    /\ hitLayer' = EmptyLayer
    /\ startMeta' = NoMeta
    /\ prevTaken' = "none"

\* A release of the buildpack declares another plugin list.
EnvChangePlugins ==
    /\ AtRest
    /\ \E d \in PluginDecls \ {caddyPlugins} : caddyPlugins' = d
    /\ ForgetInvocation
    /\ UNCHANGED <<bpVersion, template, meta, layer>>

\* A release of the buildpack carries another version.
EnvChangeBuildpackVersion ==
    /\ AtRest
    /\ \E v \in BuildpackVersions \ {bpVersion} : bpVersion' = v
    /\ ForgetInvocation
    /\ UNCHANGED <<caddyPlugins, template, meta, layer>>

\* The default Caddyfile of the buildpack changes.
EnvChangeTemplate ==
    /\ AtRest
    /\ \E t \in Templates \ {template} : template' = t
    /\ ForgetInvocation
    /\ UNCHANGED <<caddyPlugins, bpVersion, meta, layer>>

\* bin/caddy is deleted out of band.
EnvDeleteBinary ==
    /\ AtRest
    /\ layer.caddy.kind = "file"
    /\ layer' = [layer EXCEPT !.caddy = Absent]
    /\ ForgetInvocation
    /\ UNCHANGED <<caddyPlugins, bpVersion, template, meta>>

\* ---- build ----

Fail(stage) ==
    /\ pc' = AfterFailure(stage)
    /\ result' = "error"

\* Lines 297-335: derive the key, get the layer, decide between the Hit
\* path and the Miss path.
Decide ==
    /\ AtRest
    /\ trace' = <<>>
    /\ startMeta' = meta
    /\ prevTaken' = (IF pc = "done" /\ result = "success" THEN taken ELSE "none")
    /\ cver' = ""
    /\ \/ \* context.Layers.Get fails, lines 304-307
          /\ pc' = "done"
          /\ result' = "error"
          /\ taken' = "none"
          /\ lmeta' = NoMeta
          /\ hitLayer' = EmptyLayer
       \/ /\ result' = "running"
          /\ lmeta' = meta
          /\ IF CacheHit(meta, layer, caddyPlugins, bpVersion)
             THEN pc' = "hit_config" /\ taken' = "hit" /\ hitLayer' = layer
             ELSE pc' = "reset" /\ taken' = "miss" /\ hitLayer' = EmptyLayer
    /\ UNCHANGED <<caddyPlugins, bpVersion, template, meta, layer>>

\* Hit path, lines 319-322: copy the default configuration.
HitCopyConfig ==
    /\ pc = "hit_config"
    /\ trace' = Append(trace, "config")
    /\ \/ /\ layer' = CopyDefaultConfig(layer, template)
          /\ pc' = "hit_sbom"
          /\ UNCHANGED result
       \/ /\ \E c \in {layer.config, "partial"} : layer' = [layer EXCEPT !.config = c]
          /\ pc' = "done"
          /\ result' = "error"
    /\ UNCHANGED <<caddyPlugins, bpVersion, template, meta, lmeta, cver, taken,
                   hitLayer, startMeta, prevTaken>>

\* Hit path, lines 324-330: write the SBOM and return the layer as it was read.
HitWriteSBOM ==
    /\ pc = "hit_sbom"
    /\ trace' = Append(trace, "sbom")
    /\ pc' = "done"
    /\ \/ /\ layer' = [layer EXCEPT !.sbom = TRUE]
          /\ result' = "success"
          /\ meta' = lmeta
       \/ /\ result' = "error"
          /\ UNCHANGED <<layer, meta>>
    /\ UNCHANGED <<caddyPlugins, bpVersion, template, lmeta, cver, taken,
                   hitLayer, startMeta, prevTaken>>

\* Miss path, lines 335-338: layer.Reset() empties the layer directory and
\* the metadata of the layer value.
MissReset ==
    /\ pc = "reset"
    /\ trace' = Append(trace, "reset")
    /\ \/ /\ layer' = EmptyLayer
          /\ lmeta' = NoMeta
          /\ pc' = StageAfter("reset")
          /\ UNCHANGED result
       \/ /\ layer' \in {layer, EmptyLayer}
          /\ Fail("reset")
          /\ UNCHANGED lmeta
    /\ UNCHANGED <<caddyPlugins, bpVersion, template, meta, cver, taken,
                   hitLayer, startMeta, prevTaken>>

\* Lines 340-342: os.MkdirAll(binDir).
MissMkdirBin ==
    /\ pc = "mkdir"
    /\ trace' = Append(trace, "mkdir")
    /\ \/ /\ layer' = [layer EXCEPT !.bindir = TRUE]
          /\ pc' = StageAfter("mkdir")
          /\ UNCHANGED result
       \/ /\ Fail("mkdir")
          /\ UNCHANGED layer
    /\ UNCHANGED <<caddyPlugins, bpVersion, template, meta, lmeta, cver, taken,
                   hitLayer, startMeta, prevTaken>>

\* Lines 349-352: download the xcaddy archive.
MissFetch ==
    /\ pc = "fetch"
    /\ trace' = Append(trace, "fetch")
    /\ \/ pc' = StageAfter("fetch") /\ UNCHANGED result
       \/ Fail("fetch")
    /\ UNCHANGED <<caddyPlugins, bpVersion, template, meta, layer, lmeta, cver, taken,
                   hitLayer, startMeta, prevTaken>>

\* Lines 354-356: extractTarGz(data, binDir). What the archive holds is up
\* to the server: bin/xcaddy or not, and possibly a directory at bin/caddy.
\* A failed extraction leaves what it wrote before the failure.
MissExtract ==
    /\ pc = "extract"
    /\ trace' = Append(trace, "extract")
    /\ \E x \in BOOLEAN, c \in {Absent, DirEntry} :
        layer' = [layer EXCEPT !.xcaddy = x, !.caddy = c]
    /\ \/ pc' = StageAfter("extract") /\ UNCHANGED result
       \/ Fail("extract")
    /\ UNCHANGED <<caddyPlugins, bpVersion, template, meta, lmeta, cver, taken,
                   hitLayer, startMeta, prevTaken>>

\* Lines 358-361: os.Chmod(xcaddyPath) fails when the archive held no xcaddy.
MissChmodXCaddy ==
    /\ pc = "chmod"
    /\ trace' = Append(trace, "chmod")
    /\ IF layer.xcaddy
       THEN pc' = StageAfter("chmod") /\ UNCHANGED result
       ELSE Fail("chmod")
    /\ UNCHANGED <<caddyPlugins, bpVersion, template, meta, layer, lmeta, cver, taken,
                   hitLayer, startMeta, prevTaken>>

\* Lines 363-365, runXCaddy 512-532: the toolchain builds bin/caddy from the
\* sorted plugins, or fails; a directory at bin/caddy stays a directory; the
\* os.Chmod of the output fails when the toolchain left no output.
MissRunXCaddy ==
    /\ pc = "build"
    /\ trace' = Append(trace, "build")
    /\ \/ \* the toolchain exits with success and wrote its output
          /\ \E v \in CaddyVersions :
                layer' = [layer EXCEPT !.caddy =
                            IF layer.caddy.kind = "dir" THEN DirEntry
                            ELSE BuiltFile(SortedPlugins(caddyPlugins).plugins, bpVersion, v)]
          /\ pc' = StageAfter("build")
          /\ UNCHANGED result
       \/ \* the toolchain fails, or exits with success without an output
          /\ Fail("build")
          /\ UNCHANGED layer
    /\ UNCHANGED <<caddyPlugins, bpVersion, template, meta, lmeta, cver, taken,
                   hitLayer, startMeta, prevTaken>>

\* Lines 367-369: os.Remove(xcaddyPath).
MissRemoveXCaddy ==
    /\ pc = "remove"
    /\ trace' = Append(trace, "remove")
    /\ \/ /\ layer' = [layer EXCEPT !.xcaddy = FALSE]
          /\ pc' = StageAfter("remove")
          /\ UNCHANGED result
       \/ /\ Fail("remove")
          /\ UNCHANGED layer
    /\ UNCHANGED <<caddyPlugins, bpVersion, template, meta, lmeta, cver, taken,
                   hitLayer, startMeta, prevTaken>>

\* Lines 371-374: run bin/caddy version; only a built binary answers.
MissVersionQuery ==
    /\ pc = "version"
    /\ trace' = Append(trace, "version")
    /\ \/ /\ layer.caddy.kind = "file"
          /\ cver' = layer.caddy.version
          /\ pc' = StageAfter("version")
          /\ UNCHANGED result
       \/ /\ Fail("version")
          /\ UNCHANGED cver
    /\ UNCHANGED <<caddyPlugins, bpVersion, template, meta, layer, lmeta, taken,
                   hitLayer, startMeta, prevTaken>>

\* Lines 376-378: copy the default configuration.
MissCopyConfig ==
    /\ pc = "config"
    /\ trace' = Append(trace, "config")
    /\ \/ /\ layer' = CopyDefaultConfig(layer, template)
          /\ pc' = StageAfter("config")
          /\ UNCHANGED result
       \/ /\ \E c \in {layer.config, "partial"} : layer' = [layer EXCEPT !.config = c]
          /\ Fail("config")
    /\ UNCHANGED <<caddyPlugins, bpVersion, template, meta, lmeta, cver, taken,
                   hitLayer, startMeta, prevTaken>>

\* Lines 380-391: assign layer.Metadata.
MissAssignMetadata ==
    /\ pc = "metadata"
    /\ trace' = Append(trace, "metadata")
    /\ lmeta' = CaddyMetadata(caddyPlugins, bpVersion, cver)
    /\ pc' = StageAfter("metadata")
    /\ UNCHANGED <<caddyPlugins, bpVersion, template, meta, layer, cver, result, taken,
                   hitLayer, startMeta, prevTaken>>

\* Lines 393-399: write the SBOM and return the layer; the returned
\* metadata is stored with the layer.
MissWriteSBOM ==
    /\ pc = "sbom"
    /\ trace' = Append(trace, "sbom")
    /\ \/ /\ layer' = [layer EXCEPT !.sbom = TRUE]
          /\ pc' = StageAfter("sbom")
          /\ result' = "success"
          /\ meta' = lmeta
       \/ /\ Fail("sbom")
          /\ UNCHANGED <<layer, meta>>
    /\ UNCHANGED <<caddyPlugins, bpVersion, template, lmeta, cver, taken,
                   hitLayer, startMeta, prevTaken>>

(***************************************************************************)
(* The pkgx installer's build: pkgx/run/main.go 30-118                     *)
(***************************************************************************)

\* layer.Path of the pkgx layer, binDir and pkgxBinary (lines 54 and 64).
PkgxLayerPath == <<"/", "l">>
Bin == <<"b", "i", "n">>
PkgxName == <<"p", "k", "g", "x">>
PkgxBinDir == JoinPath(PkgxLayerPath, Bin)
PkgxBinary == JoinPath(PkgxBinDir, PkgxName)

\* Trimmed outputs of uname and of uname -m.
UnameOS == { <<"L", "i", "n", "u", "x">>, <<"D", "a", "r", "w", "i", "n">> }
UnameArch == { <<"x", "8", "6", "_", "6", "4">>, <<"a", "a", "r", "c", "h", "6", "4">> }

\* fmt.Sprintf("https://pkgx.sh/%s/%s.tgz", osName, arch)
PkgxArchiveURL(o, a) ==
    <<"h", "t", "t", "p", "s", ":", "/", "/", "p", "k", "g", "x", ".", "s", "h", "/">> \o o \o <<"/">> \o a \o <<".", "t", "g", "z">>

\* The layers directory before build: without the layer, or with the layer
\* as an earlier build left it and the lifecycle restored it.
PkgxFreshFs == [p \in { <<>> } |-> DirNode]
PkgxRestoredFs ==
    [p \in { <<>>, <<L>>, <<L, Bin>>, <<L, Bin, PkgxName>> } |->
        IF p = <<L, Bin, PkgxName>> THEN FileNode(Mode755, NoData) ELSE DirNode]

\* Headers of the archives the download can return: the binary and one
\* other name; a directory, a hard link, regular files, symbolic links to
\* the other name and to the binary's own name.
PkgxEntries ==
    { Header(n, t, <<>>, Mode755, FALSE) :
        n \in {PkgxName, X}, t \in {"TypeDir", "TypeLink"} }
    \cup
    { Header(n, "TypeReg", <<>>, m, b) :
        n \in {PkgxName, X}, m \in {Mode644, Mode755}, b \in BOOLEAN }
    \cup
    { Header(n, "TypeSymlink", l, Mode777, FALSE) :
        n \in {PkgxName, X}, l \in {PkgxName, X} }

SeqsUpTo(S, n) == UNION { [1..k -> S] : k \in 0..n }

\* The bodies an HTTP 200 response can carry: a well-formed archive, one
\* whose tar stream is corrupt after its entries, one that is not gzip.
PkgxArchives ==
    { [entries |-> es, fault |-> f] :
        es \in SeqsUpTo(PkgxEntries, MaxEntries), f \in {"none", "header"} }
    \cup { [entries |-> <<>>, fault |-> "gzip"] }

NoArchive == [entries |-> <<>>, fault |-> "unfetched"]

NoPkgxMeta ==
    [present |-> FALSE, checksum |-> NoHash, uri |-> <<>>, os |-> <<>>,
     arch |-> <<>>, buildpack_version |-> ""]

\* The map assigned to layer.Metadata, lines 74-80.
PkgxMetadata(checksum, uri, o, a, bp) ==
    [present |-> TRUE, checksum |-> checksum, uri |-> uri, os |-> o,
     arch |-> a, buildpack_version |-> bp]

PInit ==
    /\ pkgxVersion \in BuildpackVersions
    /\ osName = <<>>
    /\ arch = <<>>
    /\ pdata = NoArchive
    /\ ppc = "uname"
    /\ pmeta = NoPkgxMeta
    /\ presult = "none"
    /\ fs \in { PkgxFreshFs, PkgxRestoredFs }
    /\ dest = <<>>
    /\ xres = "idle"
    /\ xcount = 0
    /\ xlast = NoEntry
    /\ xprev = fs
    /\ touched = {}

\* return packit.BuildResult{}, err
PReturnError ==
    /\ ppc' = "done"
    /\ presult' = "error"

\* Lines 31-41: both calls of uname.
PUname ==
    /\ ppc = "uname"
    /\ \/ /\ PReturnError
          /\ UNCHANGED <<osName, arch>>
       \/ /\ \E o \in UnameOS, a \in UnameArch : osName' = o /\ arch' = a
          /\ ppc' = "get"
          /\ UNCHANGED presult
    /\ UNCHANGED <<pkgxVersion, pdata, pmeta, xVars>>

\* Lines 44-47: context.Layers.Get.
PLayersGet ==
    /\ ppc = "get"
    /\ \/ PReturnError
       \/ ppc' = "reset" /\ UNCHANGED presult
    /\ UNCHANGED <<pkgxVersion, osName, arch, pdata, pmeta, xVars>>

\* Lines 49-52: layer.Reset.
PReset ==
    /\ ppc = "reset"
    /\ \/ PReturnError /\ UNCHANGED fs
       \/ /\ fs' = RemoveAllAndMkdir(fs, PkgxLayerPath)
          /\ ppc' = "mkdir"
          /\ UNCHANGED presult
    /\ UNCHANGED <<pkgxVersion, osName, arch, pdata, pmeta>>
    /\ UNCHANGED <<dest, xres, xcount, xlast, xprev, touched>>

\* Lines 54-57: os.MkdirAll(binDir, 0o755).
PMkdirBin ==
    /\ ppc = "mkdir"
    /\ LET r == MkdirAll(fs, PkgxBinDir)
       IN  \/ PReturnError /\ UNCHANGED fs
           \/ /\ ~r.failed
              /\ fs' = r.fs
              /\ ppc' = "fetch"
              /\ UNCHANGED presult
    /\ UNCHANGED <<pkgxVersion, osName, arch, pdata, pmeta>>
    /\ UNCHANGED <<dest, xres, xcount, xlast, xprev, touched>>

\* Lines 59-62 and 96-118: fetchArchive; then extractTarGz is entered with
\* the body and binDir.
PFetch ==
    /\ ppc = "fetch"
    /\ \/ /\ PReturnError
          /\ UNCHANGED <<pdata, xVars>>
       \/ /\ \E body \in PkgxArchives : pdata' = body
          /\ ppc' = "extract"
          /\ dest' = PkgxBinDir
          /\ xres' = "run"
          /\ xcount' = 0
          /\ xlast' = NoEntry
          /\ xprev' = fs
          /\ touched' = {}
          /\ UNCHANGED <<fs, presult>>
    /\ UNCHANGED <<pkgxVersion, osName, arch, pmeta>>

\* Lines 64-66 and 120-173: one step of extractTarGz(data, binDir): the
\* gzip header, or one turn of the loop over the tar headers.
PExtract ==
    /\ ppc = "extract"
    /\ xres = "run"
    /\ IF pdata.fault = "gzip"
       THEN /\ xres' = "gzip"
            /\ UNCHANGED <<fs, xcount, xlast, xprev, touched>>
       ELSE IF xcount = Len(pdata.entries)
       THEN /\ xres' = (IF pdata.fault = "header" THEN "header" ELSE "ok")
            /\ UNCHANGED <<fs, xcount, xlast, xprev, touched>>
       ELSE LET e == AtPosition(pdata.entries[xcount + 1], xcount + 1)
                r == ExtractEntry(fs, dest, e)
            IN  /\ fs' = r.fs
                /\ xres' = r.res
                /\ touched' = touched \cup r.wrote
                /\ xlast' = e
                /\ xprev' = fs
                /\ xcount' = xcount + 1
    /\ ppc' = (IF xres' = "run" THEN "extract"
               ELSE IF xres' = "ok" THEN "chmod" ELSE "done")
    /\ presult' = (IF xres' \in {"run", "ok"} THEN presult ELSE "error")
    /\ UNCHANGED <<pkgxVersion, osName, arch, pdata, pmeta, dest>>

\* Lines 64-86: os.Chmod(pkgxBinary, 0o755), where os.ErrNotExist is not an
\* error; then the flags, the metadata and the successful return.
PChmodAndReturn ==
    /\ ppc = "chmod"
    /\ LET c == Chmod(fs, PkgxBinary, Mode755)
       IN  IF c.failed /\ ~c.notExist
           THEN /\ PReturnError
                /\ UNCHANGED <<fs, pmeta>>
           ELSE /\ fs' = c.fs
                /\ pmeta' = PkgxMetadata(Sha256Hex(pdata), PkgxArchiveURL(osName, arch),
                                         osName, arch, pkgxVersion)
                /\ presult' = "success"
                /\ ppc' = "done"
    /\ UNCHANGED <<pkgxVersion, osName, arch, pdata>>
    /\ UNCHANGED <<dest, xres, xcount, xlast, xprev, touched>>

(***************************************************************************)
(* The ttyd installer's build: unnamed/part_000 17-117                     *)
(***************************************************************************)

defaultVersion == <<"1", ".", "7", ".", "7">>
releasesBaseURL ==
    <<"h", "t", "t", "p", "s", ":", "/", "/", "g", "i", "t", "h", "u", "b", ".", "c", "o", "m", "/", "t", "s", "l", "0", "9", "2", "2">>
    \o <<"/", "t", "t", "y", "d", "/", "r", "e", "l", "e", "a", "s", "e", "s", "/", "d", "o", "w", "n", "l", "o", "a", "d">>

\* assetMap, lines 23-26.
assetMap ==
    [k \in { <<"l", "i", "n", "u", "x", "/", "a", "m", "d", "6", "4">>, <<"l", "i", "n", "u", "x", "/", "a", "r", "m", "6", "4">> } |->
        IF k = <<"l", "i", "n", "u", "x", "/", "a", "m", "d", "6", "4">>
        THEN <<"t", "t", "y", "d", ".", "x", "8", "6", "_", "6", "4">>
        ELSE <<"t", "t", "y", "d", ".", "a", "a", "r", "c", "h", "6", "4">>]

\* Values of runtime.GOOS and runtime.GOARCH of the running binary.
GoOSes == { <<"l", "i", "n", "u", "x">>, <<"d", "a", "r", "w", "i", "n">> }
GoArches == { <<"a", "m", "d", "6", "4">>, <<"a", "r", "m", "6", "4">>, <<"r", "i", "s", "c", "v", "6", "4">> }

\* The environment variable TTYD_VERSION: not set, or set to a value.
Unset == [set |-> FALSE, value |-> <<>>]
TtydVersionEnvs ==
    { Unset } \cup
    { [set |-> TRUE, value |-> v] :
        v \in { <<>>, <<" ", "\t">>, <<"1", ".", "7", ".", "6">>, <<" ">> \o <<"1", ".", "7", ".", "6">> \o <<"\n">>,
               <<"1", " ", "7">> } }

\* os.Getenv
Getenv(e) == IF e.set THEN e.value ELSE <<>>

\* unicode.IsSpace for the characters of the model.
WhiteSpace == { " ", "\t", "\n", "\r" }

RECURSIVE TrimLeft(_)
TrimLeft(s) ==
    IF Len(s) > 0 /\ Head(s) \in WhiteSpace THEN TrimLeft(Tail(s)) ELSE s

RECURSIVE TrimRight(_)
TrimRight(s) ==
    IF Len(s) > 0 /\ s[Len(s)] \in WhiteSpace
    THEN TrimRight(SubSeq(s, 1, Len(s) - 1)) ELSE s

\* strings.TrimSpace
TrimSpace(s) == TrimRight(TrimLeft(s))

\* The override taken as it is, without strings.TrimSpace.
TtydVersionUntrimmed(e) ==
    IF Getenv(e) = <<>> THEN defaultVersion ELSE Getenv(e)

\* version of lines 46-49.
TtydVersion(e) ==
    LET v == TrimSpace(Getenv(e))
    IN  IF v = <<>> THEN defaultVersion ELSE v

\* fmt.Sprintf("%s/%s", a, b) and fmt.Sprintf("%s/%s/%s", a, b, c)
Sprintf2(a, b) == a \o <<"/">> \o b
Sprintf3(a, b, c) == a \o <<"/">> \o b \o <<"/">> \o c

\* layer.Path of the ttyd layer, binDir and binaryPath (lines 63 and 68).
TtydLayerPath == <<"/", "l">>
TtydName == <<"t", "t", "y", "d">>
TtydBinDir == JoinPath(TtydLayerPath, Bin)
TtydBinaryPath == JoinPath(TtydBinDir, TtydName)

\* Bodies an HTTP 200 response can carry.
TtydBodies == { 1, 2 }

NoTtydMeta ==
    [present |-> FALSE, checksum |-> NoHash, uri |-> <<>>, version |-> <<>>,
     asset |-> <<>>, os |-> <<>>, arch |-> <<>>, buildpack_version |-> ""]

\* The map assigned to layer.Metadata, lines 83-91.
TtydMetadata(checksum, uri, v, asset, o, a, bp) ==
    [present |-> TRUE, checksum |-> checksum, uri |-> uri, version |-> v,
     asset |-> asset, os |-> o, arch |-> a, buildpack_version |-> bp]

\* The layers directory before build: without the layer, or with the layer
\* and the metadata an earlier build on linux/amd64 left.
TtydFreshFs == [p \in { <<>> } |-> DirNode]
TtydRestoredFs ==
    [p \in { <<>>, <<L>>, <<L, Bin>>, <<L, Bin, TtydName>> } |->
        IF p = <<L, Bin, TtydName>>
        THEN FileNode(Mode755, [content |-> 1, full |-> TRUE])
        ELSE DirNode]
TtydRestoredMeta ==
    TtydMetadata(Sha256Hex(1),
                 Sprintf3(releasesBaseURL, defaultVersion, <<"t", "t", "y", "d", ".", "x", "8", "6", "_", "6", "4">>),
                 defaultVersion, <<"t", "t", "y", "d", ".", "x", "8", "6", "_", "6", "4">>, <<"l", "i", "n", "u", "x">>, <<"a", "m", "d", "6", "4">>, "B1")

TInit ==
    /\ goos \in GoOSes
    /\ goarch \in GoArches
    /\ ttydVersionEnv \in TtydVersionEnvs
    /\ ttydBpVersion = "B1"
    /\ assetName = <<>>
    /\ tversion = <<>>
    /\ archiveURL = <<>>
    /\ tdata = 0
    /\ tpc = "platform"
    /\ \/ fs = TtydFreshFs /\ tmeta = NoTtydMeta
       \/ fs = TtydRestoredFs /\ tmeta = TtydRestoredMeta
    /\ tresult = "none"
    /\ fetched = {}
    /\ resets = 0
    /\ tstartFs = fs
    /\ tstartMeta = tmeta
    /\ dest = <<>>
    /\ xres = "idle"
    /\ xcount = 0
    /\ xlast = NoEntry
    /\ xprev = InitialFs
    /\ touched = {}

\* return packit.BuildResult{}, err
TReturnError(kind) ==
    /\ tpc' = "done"
    /\ tresult' = kind

\* Lines 37-51: look the platform up, resolve the version, format the URL.
TResolve ==
    /\ tpc = "platform"
    /\ LET assetKey == Sprintf2(goos, goarch)
       IN  IF assetKey \notin DOMAIN assetMap
           THEN /\ TReturnError("unsupported platform")
                /\ UNCHANGED <<assetName, tversion, archiveURL>>
           ELSE /\ assetName' = assetMap[assetKey]
                /\ tversion' = TtydVersion(ttydVersionEnv)
                /\ archiveURL' = Sprintf3(releasesBaseURL, tversion', assetName')
                /\ tpc' = "get"
                /\ UNCHANGED tresult
    /\ UNCHANGED <<goos, goarch, ttydVersionEnv, ttydBpVersion, tdata, tmeta, fetched,
                   resets, tstartFs, tstartMeta, xVars>>

\* Lines 53-56: context.Layers.Get.
TLayersGet ==
    /\ tpc = "get"
    /\ \/ TReturnError("error")
       \/ tpc' = "reset" /\ UNCHANGED tresult
    /\ UNCHANGED <<goos, goarch, ttydVersionEnv, ttydBpVersion, assetName, tversion,
                   archiveURL, tdata, tmeta, fetched, resets, tstartFs, tstartMeta, xVars>>

\* Lines 58-61: layer.Reset.
TReset ==
    /\ tpc = "reset"
    /\ resets' = resets + 1
    /\ \/ TReturnError("error") /\ UNCHANGED fs
       \/ /\ fs' = RemoveAllAndMkdir(fs, TtydLayerPath)
          /\ tpc' = "mkdir"
          /\ UNCHANGED tresult
    /\ UNCHANGED <<goos, goarch, ttydVersionEnv, ttydBpVersion, assetName, tversion,
                   archiveURL, tdata, tmeta, fetched, tstartFs, tstartMeta>>
    /\ UNCHANGED <<dest, xres, xcount, xlast, xprev, touched>>

\* Lines 63-66: os.MkdirAll(binDir, 0o755).
TMkdirBin ==
    /\ tpc = "mkdir"
    /\ LET r == MkdirAll(fs, TtydBinDir)
       IN  \/ TReturnError("error") /\ UNCHANGED fs
           \/ /\ ~r.failed
              /\ fs' = r.fs
              /\ tpc' = "fetch"
              /\ UNCHANGED tresult
    /\ UNCHANGED <<goos, goarch, ttydVersionEnv, ttydBpVersion, assetName, tversion,
                   archiveURL, tdata, tmeta, fetched, resets, tstartFs, tstartMeta>>
    /\ UNCHANGED <<dest, xres, xcount, xlast, xprev, touched>>

\* Lines 70-73 and 98-117: fetchBinary(archiveURL).
TFetch ==
    /\ tpc = "fetch"
    /\ fetched' = fetched \cup {archiveURL}
    /\ \/ TReturnError("error") /\ UNCHANGED tdata
       \/ /\ \E body \in TtydBodies : tdata' = body
          /\ tpc' = "write"
          /\ UNCHANGED tresult
    /\ UNCHANGED <<goos, goarch, ttydVersionEnv, ttydBpVersion, assetName, tversion,
                   archiveURL, tmeta, resets, tstartFs, tstartMeta, xVars>>

\* Lines 75-95: os.WriteFile(binaryPath, data, 0o755), which can fail after
\* a part of the data is written; then the flags, the metadata and the
\* successful return.
TWriteAndReturn ==
    /\ tpc = "write"
    /\ \E short \in BOOLEAN :
        LET w == WriteFile(fs, TtydBinaryPath, Mode755, tdata, short)
        IN  /\ fs' = w.fs
            /\ IF w.failed
               THEN TReturnError("error") /\ UNCHANGED tmeta
               ELSE /\ tmeta' = TtydMetadata(Sha256Hex(tdata), archiveURL, tversion,
                                             assetName, goos, goarch, ttydBpVersion)
                    /\ tresult' = "success"
                    /\ tpc' = "done"
    /\ UNCHANGED <<goos, goarch, ttydVersionEnv, ttydBpVersion, assetName, tversion,
                   archiveURL, tdata, fetched, resets, tstartFs, tstartMeta>>
    /\ UNCHANGED <<dest, xres, xcount, xlast, xprev, touched>>

(***************************************************************************)
(* Specifications                                                          *)
(***************************************************************************)

\* Values of the variables a specification does not use.
KeyIdle ==
    /\ declaredSrc = <<>>
    /\ buildHash = NoHash
    /\ prevDeclared = <<>>
    /\ prevHash = NoHash
    /\ prevHashed = <<>>
    /\ keyOp = "declare"

XIdle ==
    /\ dest = <<>>
    /\ fs = InitialFs
    /\ xres = "idle"
    /\ xcount = 0
    /\ xlast = NoEntry
    /\ xprev = InitialFs
    /\ touched = {}

PIdle ==
    /\ pkgxVersion = ""
    /\ osName = <<>>
    /\ arch = <<>>
    /\ pdata = NoArchive
    /\ ppc = "off"
    /\ pmeta = NoPkgxMeta
    /\ presult = "none"

TIdle ==
    /\ goos = <<>>
    /\ goarch = <<>>
    /\ ttydVersionEnv = Unset
    /\ ttydBpVersion = ""
    /\ assetName = <<>>
    /\ tversion = <<>>
    /\ archiveURL = <<>>
    /\ tdata = 0
    /\ tpc = "off"
    /\ tmeta = NoTtydMeta
    /\ tresult = "none"
    /\ fetched = {}
    /\ resets = 0
    /\ tstartFs = InitialFs
    /\ tstartMeta = NoTtydMeta

CIdle ==
    /\ bpVersion = ""
    /\ template = ""
    /\ meta = NoMeta
    /\ layer = EmptyLayer
    /\ pc = "off"
    /\ lmeta = NoMeta
    /\ cver = ""
    /\ result = "none"
    /\ taken = "none"
    /\ trace = <<>>
    /\ hitLayer = EmptyLayer
    /\ startMeta = NoMeta
    /\ prevTaken = "none"

keyOnly == <<declaredSrc, buildHash, prevDeclared, prevHash, prevHashed, keyOp>>

KeyNext ==
    \/ KeyDerive /\ UNCHANGED <<xVars, cVars, pVars, tVars>>
    \/ KeyReorder /\ UNCHANGED <<xVars, cVars, pVars, tVars>>
    \/ KeyChangeOne /\ UNCHANGED <<xVars, cVars, pVars, tVars>>

\* The cache-key derivation over changing plugin declarations.
KeySpecInit == KeyInit /\ XIdle /\ CIdle /\ PIdle /\ TIdle

SpecKey == KeySpecInit /\ [][KeyNext]_vars

ExtractInit == XInit /\ KeyIdle /\ caddyPlugins = <<>> /\ CIdle /\ PIdle /\ TIdle

ExtractNext ==
    \/ XGzipError /\ UNCHANGED <<keyVars, cVars, pVars, tVars>>
    \/ XHeaderError /\ UNCHANGED <<keyVars, cVars, pVars, tVars>>
    \/ XEndOfStream /\ UNCHANGED <<keyVars, cVars, pVars, tVars>>
    \/ XEntry /\ UNCHANGED <<keyVars, cVars, pVars, tVars>>

\* One call of extractTarGz over every archive within the bounds.
SpecExtract == ExtractInit /\ [][ExtractNext]_vars

PkgxInit == PInit /\ KeyIdle /\ caddyPlugins = <<>> /\ CIdle /\ TIdle

PkgxNext ==
    \/ PUname /\ UNCHANGED <<keyVars, cVars, tVars>>
    \/ PLayersGet /\ UNCHANGED <<keyVars, cVars, tVars>>
    \/ PReset /\ UNCHANGED <<keyVars, cVars, tVars>>
    \/ PMkdirBin /\ UNCHANGED <<keyVars, cVars, tVars>>
    \/ PFetch /\ UNCHANGED <<keyVars, cVars, tVars>>
    \/ PExtract /\ UNCHANGED <<keyVars, cVars, tVars>>
    \/ PChmodAndReturn /\ UNCHANGED <<keyVars, cVars, tVars>>

\* One run of the pkgx installer's build over every archive within the bounds.
SpecPkgx == PkgxInit /\ [][PkgxNext]_vars

TtydInit == TInit /\ KeyIdle /\ caddyPlugins = <<>> /\ CIdle /\ PIdle

TtydNext ==
    \/ TResolve /\ UNCHANGED <<keyVars, cVars, pVars>>
    \/ TLayersGet /\ UNCHANGED <<keyVars, cVars, pVars>>
    \/ TReset /\ UNCHANGED <<keyVars, cVars, pVars>>
    \/ TMkdirBin /\ UNCHANGED <<keyVars, cVars, pVars>>
    \/ TFetch /\ UNCHANGED <<keyVars, cVars, pVars>>
    \/ TWriteAndReturn /\ UNCHANGED <<keyVars, cVars, pVars>>

\* One run of the ttyd installer's build on every platform, with every
\* value of TTYD_VERSION.
SpecTtyd == TtydInit /\ [][TtydNext]_vars

Init == CInit /\ KeyIdle /\ XIdle /\ PIdle /\ TIdle

Next ==
    \/ EnvChangePlugins /\ UNCHANGED <<keyOnly, xVars, pVars, tVars>>
    \/ EnvChangeBuildpackVersion /\ UNCHANGED <<keyOnly, xVars, pVars, tVars>>
    \/ EnvChangeTemplate /\ UNCHANGED <<keyOnly, xVars, pVars, tVars>>
    \/ EnvDeleteBinary /\ UNCHANGED <<keyOnly, xVars, pVars, tVars>>
    \/ Decide /\ UNCHANGED <<keyOnly, xVars, pVars, tVars>>
    \/ HitCopyConfig /\ UNCHANGED <<keyOnly, xVars, pVars, tVars>>
    \/ HitWriteSBOM /\ UNCHANGED <<keyOnly, xVars, pVars, tVars>>
    \/ MissReset /\ UNCHANGED <<keyOnly, xVars, pVars, tVars>>
    \/ MissMkdirBin /\ UNCHANGED <<keyOnly, xVars, pVars, tVars>>
    \/ MissFetch /\ UNCHANGED <<keyOnly, xVars, pVars, tVars>>
    \/ MissExtract /\ UNCHANGED <<keyOnly, xVars, pVars, tVars>>
    \/ MissChmodXCaddy /\ UNCHANGED <<keyOnly, xVars, pVars, tVars>>
    \/ MissRunXCaddy /\ UNCHANGED <<keyOnly, xVars, pVars, tVars>>
    \/ MissRemoveXCaddy /\ UNCHANGED <<keyOnly, xVars, pVars, tVars>>
    \/ MissVersionQuery /\ UNCHANGED <<keyOnly, xVars, pVars, tVars>>
    \/ MissCopyConfig /\ UNCHANGED <<keyOnly, xVars, pVars, tVars>>
    \/ MissAssignMetadata /\ UNCHANGED <<keyOnly, xVars, pVars, tVars>>
    \/ MissWriteSBOM /\ UNCHANGED <<keyOnly, xVars, pVars, tVars>>

\* Invocations of the caddy installer's build on one layer, with changes of
\* the buildpack and of the layer between them.
Spec == Init /\ [][Next]_vars

\* C6: the derived key does not depend on the declaration order: after the
\* declaration was reordered, the key derived for it equals the key derived
\* before the reordering, and the derivation leaves the declared list as it
\* was declared.
C6_OrderIndependent ==
    /\ caddyPlugins = declaredSrc
    /\ (keyOp = "reorder" /\ buildHash # NoHash) => buildHash = prevHash

C6_Witness ==
    /\ keyOp = "reorder"
    /\ buildHash # NoHash
    /\ declaredSrc = << <<"b">>, <<"a">> >>
    /\ prevDeclared = << <<"a">>, <<"b">> >>

\* C7: changing one plugin identifier changes the hashed string, hence the
\* key, so that the stored key of the old declaration no longer matches.
C7_ChangeChangesKey ==
    (keyOp = "change" /\ buildHash # NoHash) =>
        /\ HashedString(xcaddyVersion, SortedPlugins(caddyPlugins).plugins) # prevHashed
        /\ buildHash # prevHash

(***************************************************************************)
(* Claims about extractTarGz, checked under SpecExtract                    *)
(***************************************************************************)

\* The entry read last joins to a path that is neither the cleaned
\* destination nor below it.
LastEntryOutside ==
    LET r == Clean(dest)
        t == Clean(dest \o Sep \o xlast.name)
    IN  /\ xlast # NoEntry
        /\ t # r
        /\ ~HasPrefix(t, r \o Sep)

\* C1: an entry whose cleaned join with the destination is neither the
\* cleaned destination nor below it makes extraction return the path-escape
\* error, with the filesystem as it was before that entry, and no later
\* entry is read.
C1_EscapeRejectedBeforeMutation ==
    LastEntryOutside => (xres = "escape" /\ fs = xprev)

C1_Witness ==
    /\ xres = "escape"
    /\ xcount = 2
    /\ xlast.name = StringsJoin(<<DotDot, BC, X>>, Sep)
    /\ xlast.typ = "TypeReg"
    /\ touched # {}

\* C2: every directory, link and file that extraction created or wrote lies
\* inside the destination directory.
C2_EverythingInsideDest ==
    \A p \in touched : IsBelow(CompsOf(dest), p)

\* C10 as claimed: an entry of an unsupported type always ends extraction
\* with the unsupported-entry-type error.
C10_UnsupportedAlwaysReported ==
    (xlast # NoEntry /\ xlast.typ = "TypeLink") => xres = "unsupported"

\* C10, amended: an entry of an unsupported type ends extraction at that
\* entry with nothing written for it: with the path-escape error when its
\* path leaves the destination, with the unsupported-entry-type error
\* otherwise.
C10_UnsupportedAborts ==
    (xlast # NoEntry /\ xlast.typ = "TypeLink") =>
        /\ fs = xprev
        /\ xres = (IF LastEntryOutside THEN "escape" ELSE "unsupported")

C10_Witness ==
    /\ xres = "unsupported"
    /\ xcount = 2
    /\ xlast.typ = "TypeLink"
    /\ touched # {}

(***************************************************************************)
(* Claims about the caddy installer's build, checked under Spec            *)
(***************************************************************************)

\* build has just decided between the two paths.
JustDecided == pc \in {"hit_config", "reset"}

VersionMatches == meta.present /\ meta.buildpack_version = bpVersion
KeyMatches == meta.present /\ meta.build_hash = DeriveKey(xcaddyVersion, caddyPlugins)
BinaryIsFile == layer.caddy.kind = "file"

\* C3: the Hit path is taken only if the stored buildpack version equals
\* the current one, the stored key equals the freshly derived key and
\* bin/caddy exists and is no directory; when one of the three fails, the
\* invocation takes the Miss path.
C3_HitOnlyIfAllThree ==
    /\ pc = "hit_config" => (VersionMatches /\ KeyMatches /\ BinaryIsFile)
    /\ (JustDecided /\ ~(VersionMatches /\ KeyMatches /\ BinaryIsFile)) => pc = "reset"

\* The metadata matches and bin/caddy is a directory: Miss.
C3_Witness ==
    /\ pc = "reset"
    /\ VersionMatches
    /\ KeyMatches
    /\ layer.caddy.kind = "dir"

\* C4: with matching stored key and buildpack version and an existing
\* binary the decision is Hit, and a Hit invocation runs neither the fetch
\* nor the extraction nor the external build; with the binary deleted and
\* the same inputs the decision is Miss.
C4_HitSkipsThePipeline ==
    /\ (JustDecided /\ VersionMatches /\ KeyMatches /\ BinaryIsFile) => pc = "hit_config"
    /\ taken = "hit" =>
          \A i \in 1..Len(trace) : trace[i] \notin {"reset", "fetch", "extract", "build"}
    /\ (JustDecided /\ VersionMatches /\ KeyMatches /\ layer.caddy.kind = "absent")
          => pc = "reset"

\* The configuration of the build that stored the metadata is still in the
\* layer and the binary is gone, so the binary was deleted out of band; the
\* decision for the same inputs is Miss.
C4_Witness ==
    /\ pc = "reset"
    /\ VersionMatches
    /\ KeyMatches
    /\ layer.caddy.kind = "absent"
    /\ layer.config \in Templates
    /\ layer.sbom

\* C5: whenever an invocation takes the Hit path, the binary at bin/caddy
\* was produced by a build with the current tool version, plugin set and
\* buildpack version.
C5_HitBinaryIsCurrent ==
    taken = "hit" =>
        /\ layer.caddy.kind = "file"
        /\ layer.caddy.tool = xcaddyVersion
        /\ layer.caddy.plugins = SortStrings(caddyPlugins)
        /\ layer.caddy.bp = bpVersion

\* C8: a Hit invocation does not reset the layer and leaves the binary and
\* the stored metadata as they were; when it returns the layer, the
\* configuration in the layer is the current template.
C8_HitKeepsBinaryRefreshesConfig ==
    taken = "hit" =>
        /\ \A i \in 1..Len(trace) : trace[i] # "reset"
        /\ layer.caddy = hitLayer.caddy
        /\ meta = startMeta
        /\ (pc = "done" /\ result = "success") => layer.config = template

\* A Hit returned the layer, and the template had changed since the build.
C8_Witness ==
    /\ pc = "done"
    /\ taken = "hit"
    /\ result = "success"
    /\ hitLayer.config \in Templates
    /\ hitLayer.config # template

\* The stages the claim names, in the claimed order.
ClaimedOrder == << "reset", "fetch", "extract", "build", "version", "config", "metadata" >>

IsClaimedStage(stage) == \E i \in 1..Len(ClaimedOrder) : ClaimedOrder[i] = stage

IsPrefixOf(p, q) == Len(p) <= Len(q) /\ SubSeq(q, 1, Len(p)) = p

\* C9: a Miss invocation runs reset, fetch, extract, external build, version
\* query, configuration copy and metadata assignment in this order, each at
\* most once; a failure ends the invocation at once with the stored metadata
\* as it was; the key, the observed tool version and the buildpack version
\* are stored only after every stage has run.
C9_MissStagesInOrder ==
    taken = "miss" =>
        /\ IsPrefixOf(SelectSeq(trace, IsClaimedStage), ClaimedOrder)
        /\ result = "error" => (pc = "done" /\ meta = startMeta)
        /\ result = "running" => (pc # "done" /\ meta = startMeta)
        /\ result = "success" =>
              /\ pc = "done"
              /\ SelectSeq(trace, IsClaimedStage) = ClaimedOrder
              /\ meta.build_hash = DeriveKey(xcaddyVersion, caddyPlugins)
              /\ meta.buildpack_version = bpVersion
              /\ meta.caddy_version = layer.caddy.version
              /\ meta.caddy_version = cver

\* The version query failed after the external build had succeeded.
C9_Witness ==
    /\ taken = "miss"
    /\ pc = "done"
    /\ result = "error"
    /\ trace[Len(trace)] = "version"
    /\ layer.caddy.kind = "file"
    /\ startMeta.present

(***************************************************************************)
(* Claims about the order of extraction                                    *)
(***************************************************************************)

\* The results with which extractTarGz fails at an entry.
EntryFailures == { "escape", "unsupported", "fserror" }

\* What entry e leaves at its target when its case of the switch has run to
\* its end: a directory; some node at the link's path (os.ErrExist is not
\* an error); a regular file holding all of the entry's content.
EntryApplied(f, d, e) ==
    LET target == JoinPath(d, e.name)
        r == Stat(f, target)
    IN  IF e.typ = "TypeDir" THEN IsDirAt(f, r)
        ELSE IF e.typ = "TypeSymlink" THEN Lstat(f, target).st = "ok"
        ELSE IF e.typ \in {"TypeReg", "TypeRegA"}
        THEN /\ r.st = "ok"
             /\ f[r.at].kind = "file"
             /\ f[r.at].data = [content |-> e.content, full |-> TRUE]
        ELSE FALSE

\* No content on disk comes from a stream position that was not read.
NothingFromLaterEntries ==
    /\ \A p \in DOMAIN fs : fs[p].data.content <= xcount
    /\ xlast # NoEntry => /\ xlast.content = xcount
                          /\ fs = ExtractEntry(xprev, dest, xlast).fs

\* Every entry read so far was applied when it was read.
EveryEntryApplied ==
    (xres \in {"run", "ok"} /\ xcount > 0) => EntryApplied(fs, dest, xlast)

\* The file the failing entry opened (and so truncated) before its content
\* stream failed.
TruncatedByFailingEntry(p) ==
    /\ xres = "fserror"
    /\ xlast.typ \in {"TypeReg", "TypeRegA"}
    /\ xlast.broken
    /\ Stat(xprev, JoinPath(dest, xlast.name)) = [st |-> "ok", at |-> p]
    /\ xprev[p].kind = "file"
    /\ fs[p] = FileNode(xprev[p].mode, [content |-> xcount, full |-> FALSE])

\* C12 as claimed: when extraction fails at an entry, everything the entries
\* before it produced is on disk exactly as they wrote it, nothing of a
\* later entry is on disk, and a successful extraction applied every entry.
C12_EarlierEffectsUntouched ==
    /\ xres \in EntryFailures =>
            \A p \in DOMAIN xprev : p \in DOMAIN fs /\ fs[p] = xprev[p]
    /\ NothingFromLaterEntries
    /\ EveryEntryApplied

\* C12, amended: when extraction fails at an entry, everything the entries
\* before it produced is still on disk, and exactly as they wrote it except
\* for a regular file that the failing entry itself had opened, which holds
\* the part of the failing entry's content that was copied and keeps its
\* mode; nothing of a later entry is on disk, and a successful extraction
\* applied every entry.
C12_NoRollbackInStreamOrder ==
    /\ xres \in EntryFailures =>
            \A p \in DOMAIN xprev :
                /\ p \in DOMAIN fs
                /\ fs[p] = xprev[p] \/ TruncatedByFailingEntry(p)
    /\ NothingFromLaterEntries
    /\ EveryEntryApplied

\* Extraction failed at the second entry after the first one wrote a file
\* that is still there, untouched.
C12_Witness ==
    /\ xres \in EntryFailures
    /\ xcount = 2
    /\ fs # InitialFs
    /\ \E p \in DOMAIN xprev :
           /\ xprev[p].kind = "file"
           /\ xprev[p].data = [content |-> 1, full |-> TRUE]
           /\ fs[p] = xprev[p]

(***************************************************************************)
(* Claims about what a successful build leaves in the layer                *)
(***************************************************************************)

\* C11: whenever the pkgx installer's build returns a successful result,
\* bin/pkgx in the layer is a regular file with mode 0755.
C11_SuccessMeansExecutable ==
    presult = "success" =>
        LET r == Stat(fs, PkgxBinary)
        IN  /\ r.st = "ok"
            /\ fs[r.at].kind = "file"
            /\ fs[r.at].mode = Mode755

(***************************************************************************)
(* Claims about the convergence of the caddy cache                         *)
(***************************************************************************)

\* C13: when the stored metadata matches the current inputs and bin/caddy
\* is absent, the decision is the Miss path and no error is raised for the
\* inconsistency; and the invocation that follows a successful Miss
\* invocation, with nothing changed in between, takes the Hit path.
C13_SelfHealingConverges ==
    /\ (JustDecided /\ VersionMatches /\ KeyMatches /\ layer.caddy.kind = "absent")
          => (pc = "reset" /\ taken = "miss" /\ result = "running")
    /\ (JustDecided /\ prevTaken = "miss") => (pc = "hit_config" /\ taken = "hit")

\* The decision of the invocation that follows a successful Miss: Hit, on
\* the binary and the metadata of that Miss.
C13_Witness ==
    /\ pc = "hit_config"
    /\ prevTaken = "miss"
    /\ taken = "hit"
    /\ layer.caddy.kind = "file"
    /\ startMeta = meta

(***************************************************************************)
(* Claims about the ttyd installer's platform and download target          *)
(***************************************************************************)

\* The pairs that have an entry in the platform-to-asset table, and the
\* asset names of the table.
PlatformMapped ==
    <<goos, goarch>> \in { <<<<"l", "i", "n", "u", "x">>, <<"a", "m", "d", "6", "4">>>>,
                          <<<<"l", "i", "n", "u", "x">>, <<"a", "r", "m", "6", "4">>>> }
TableAsset ==
    IF goarch = <<"a", "m", "d", "6", "4">>
    THEN <<"t", "t", "y", "d", ".", "x", "8", "6", "_", "6", "4">>
    ELSE <<"t", "t", "y", "d", ".", "a", "a", "r", "c", "h", "6", "4">>

\* The strings that are s without its leading and trailing white space.
TrimmedOf(s) ==
    { t \in { SubSeq(s, i + 1, Len(s) - j) : i \in 0..Len(s), j \in 0..Len(s) } :
        /\ \E i \in 0..(Len(s) - Len(t)) :
              /\ t = SubSeq(s, i + 1, i + Len(t))
              /\ \A k \in 1..i : s[k] \in WhiteSpace
              /\ \A k \in (i + Len(t) + 1)..Len(s) : s[k] \in WhiteSpace
        /\ t = <<>> \/ (t[1] \notin WhiteSpace /\ t[Len(t)] \notin WhiteSpace) }

\* The download targets the claim allows for the current platform and
\* TTYD_VERSION.
ClaimedTargets ==
    { releasesBaseURL \o <<"/">> \o (IF t = <<>> THEN defaultVersion ELSE t)
          \o <<"/">> \o TableAsset :
      t \in TrimmedOf(IF ttydVersionEnv.set THEN ttydVersionEnv.value ELSE <<>>) }

\* C14: on a platform without an entry in the table, build fails with the
\* unsupported-platform error with no layer reset, no fetch and no write
\* done, the layer content and the stored metadata as they were; on a
\* platform with an entry, every download goes to releases base URL + "/" +
\* version + "/" + asset name, version being the trimmed TTYD_VERSION when
\* that is not empty and the default version otherwise.
C14_PlatformCheckedFirstAndTarget ==
    /\ (~PlatformMapped /\ tpc # "platform") =>
          /\ tpc = "done"
          /\ tresult = "unsupported platform"
          /\ resets = 0
          /\ fetched = {}
          /\ fs = tstartFs
          /\ tmeta = tstartMeta
    /\ PlatformMapped =>
          /\ tresult # "unsupported platform"
          /\ fetched \subseteq ClaimedTargets
          /\ tpc \in {"write", "done"} /\ tresult # "error" => fetched # {}

\* The build has failed on darwin with the layer and the metadata of
\* an earlier build in place.
C14_Witness ==
    /\ tpc = "done"
    /\ tresult = "unsupported platform"
    /\ goos = <<"d", "a", "r", "w", "i", "n">>
    /\ tstartFs = TtydRestoredFs
    /\ fs = TtydRestoredFs
    /\ tmeta = TtydRestoredMeta
====
